---- MODULE Spec2Model ----
(***************************************************************************)
(* A model of dynamic_terminal.py: the TWindow split tree, its frame/text  *)
(* rendering, and the TLog message buffer (wrapping and row bookkeeping).  *)
(*                                                                         *)
(* Windows live in the sequence `wins`; a window's identity is its index   *)
(* (the root is 1), and _hsplit/_wsplit hold the indices of the two        *)
(* children (<<>> is None).  A buffer cell holds one character, "" being   *)
(* the blank of np.full(..., '', dtype='U1').  A title is modelled by its  *)
(* length (only len() and the truth value of the title are used by the     *)
(* layout code), msg_format by the literal text in front of '{msg}'        *)
(* (templates without strftime tokens), and the fraction `per` by a        *)
(* numerator over PerDen.  An exception ends the run: `error` names it and *)
(* no further call is made.                                                *)
(*                                                                         *)
(* Besides the windows the state records what the properties speak about:  *)
(* `call` is the latest call with its arguments, `screen` the              *)
(* cursor-addressed writes of the latest draw call, and sent[n] the        *)
(* rendered texts handed to _add_msg of window n since its last clear      *)
(* (one per entry of msg_coo).                                             *)
(***************************************************************************)
EXTENDS Integers, Sequences, FiniteSets, TLC

VARIABLES wins, sent, error, call, screen

vars == <<wins, sent, error, call, screen>>

\* ---------------------------------------------------------------- bounds
MaxH == 5
MaxW == 5
MaxTitle == 2
MaxLen == 3
MaxMsgs == 2
MaxNodes == 7
MaxLogH == 5
MaxLogW == 5

PerDen == 10
Pers == {3, 5, 7}
DefaultPer == 5

\* ---------------------------------------------------------------- helpers
None == <<>>

Min(a, b) == IF a <= b THEN a ELSE b

Max(S) == CHOOSE x \in S : \A y \in S : y <= x

\* The messages main logs are prefixes of the text "0 1 2 3 ...": the
\* message arguments are the prefixes of that text, of every length.
Digits == <<"0", "1", "2", "3", "4", "5", "6", "7", "8", "9">>

MsgChar(i) == IF i % 2 = 1 THEN Digits[(((i - 1) \div 2) % 10) + 1] ELSE " "

MainMsg(len) == [i \in 1..len |-> MsgChar(i)]

Msgs == {MainMsg(len) : len \in 0..MaxLen}

Last(s) == s[Len(s)]

\* ---------------------------------------------------------------- TWindow
\* np.full((h - 2, w - 2), ...) raises ValueError on a negative dimension.
ConstructOk(h, w) == h - 2 >= 0 /\ w - 2 >= 0

BlankData(h, w) == [i \in 0..(h - 3) |-> [j \in 0..(w - 3) |-> ""]]

\* TLog.__init__ / TWindow.__init__
Construct(r, c, h, w, title, msg_format) ==
    [r |-> r, c |-> c, h |-> h, w |-> w, title |-> title,
     msg_format |-> msg_format,
     data |-> BlankData(h, w),
     hsplit |-> None, wsplit |-> None,
     msg_coo |-> <<>>]

issplitted(win) == win.hsplit # None \/ win.wsplit # None

\* The split the recursive methods follow: _hsplit is tested first.
Children(win) == IF win.hsplit # None THEN win.hsplit ELSE win.wsplit

\* The leaves a recursive call reaches below n, first child first.
RECURSIVE Leaves(_, _)
Leaves(ws, n) ==
    IF issplitted(ws[n])
    THEN Leaves(ws, Children(ws[n])[1]) \o Leaves(ws, Children(ws[n])[2])
    ELSE <<n>>

\* len(__split_str(s, n)) for n > 0
SplitStrLen(len, n) == (len + n - 1) \div n

\* ---------------------------------------------------------------- splits
\* A split point rounded up instead of down.
SplitAtCeil(size, per) == (size * per + PerDen - 1) \div PerDen

\* left_col = int(self._w * per), top_row = int(self._h * per)
SplitAt(size, per) == (size * per) \div PerDen

\* A split call that splits the window it is made on, split or not.
SplitTargetsSelf(ws, n) == <<n>>

\* The windows a split call acts on: an already split window forwards the
\* call to both children, so the call reaches the leaves below it.
SplitTargets(ws, n) == Leaves(ws, n)

\* hsplit on a leaf: the two children, or the ValueError of a child whose
\* buffer would have a negative dimension (the split is then not stored).
HsplitLeaf(ws, n, per) ==
    LET p == ws[n]
        left_col == SplitAt(p.w, per)
        k == Len(ws)
        left == Construct(p.r, p.c, p.h, left_col, p.title, p.msg_format)
        right == Construct(p.r, p.c + left_col, p.h, p.w - left_col,
                           p.title, p.msg_format)
    IN  IF ConstructOk(p.h, left_col) /\ ConstructOk(p.h, p.w - left_col)
        THEN [ok |-> TRUE,
              wins |-> [ws EXCEPT ![n].hsplit = <<k + 1, k + 2>>] \o <<left, right>>]
        ELSE [ok |-> FALSE, wins |-> ws]

\* wsplit on a leaf: the children are built without the title argument.
WsplitLeaf(ws, n, per) ==
    LET p == ws[n]
        top_row == SplitAt(p.h, per)
        k == Len(ws)
        top == Construct(p.r, p.c, top_row, p.w, 0, p.msg_format)
        bot == Construct(p.r + top_row, p.c, p.h - top_row, p.w, 0, p.msg_format)
    IN  IF ConstructOk(top_row, p.w) /\ ConstructOk(p.h - top_row, p.w)
        THEN [ok |-> TRUE,
              wins |-> [ws EXCEPT ![n].wsplit = <<k + 1, k + 2>>] \o <<top, bot>>]
        ELSE [ok |-> FALSE, wins |-> ws]

\* The recursion, first child first; an exception stops it where it is raised.
RECURSIVE SplitAll(_, _, _, _)
SplitAll(ws, targets, axis, per) ==
    IF targets = <<>> THEN [ok |-> TRUE, wins |-> ws]
    ELSE LET s == IF axis = "h" THEN HsplitLeaf(ws, Head(targets), per)
                  ELSE WsplitLeaf(ws, Head(targets), per)
         IN  IF s.ok THEN SplitAll(s.wins, Tail(targets), axis, per) ELSE s

Split(n, axis, per) ==
    /\ error = "none"
    /\ LET res == SplitAll(wins, SplitTargets(wins, n), axis, per) IN
         /\ wins' = res.wins
         /\ sent' = sent \o [i \in 1..(Len(res.wins) - Len(wins)) |-> <<>>]
         /\ error' = IF res.ok THEN "none" ELSE "ValueError"
    /\ UNCHANGED screen

hsplit(n, per) ==
    /\ Split(n, "h", per)
    /\ call' = [op |-> "hsplit", win |-> n, per |-> per, isroot |-> FALSE, msg |-> <<>>]

wsplit(n, per) ==
    /\ Split(n, "w", per)
    /\ call' = [op |-> "wsplit", win |-> n, per |-> per, isroot |-> FALSE, msg |-> <<>>]

\* ---------------------------------------------------------------- drawing
\* __split_str(title, w - 2) raises ValueError (range step 0) when w == 2.
TitleOk(win) == ~(win.title > 0 /\ win.w - 2 = 0)

TitleRows(win) == SplitStrLen(win.title, win.w - 2)

Write(n, kind, row, col) == [win |-> n, kind |-> kind, row |-> row, col |-> col]

\* The go_cursor_to_pos + write_line pairs of draw_frame for one window.
FrameWrites(n, win) ==
    LET first == IF win.title > 0 THEN win.r + TitleRows(win) + 2 ELSE win.r + 1
    IN  {Write(n, "top", win.r, win.c)}
        \cup (IF win.title > 0
              THEN {Write(n, "title", win.r + i, win.c) : i \in 1..TitleRows(win)}
                   \cup {Write(n, "divider", win.r + TitleRows(win) + 1, win.c)}
              ELSE {})
        \cup {Write(n, "blank", row, win.c) : row \in first..(win.r + win.h - 2)}
        \cup {Write(n, "bottom", win.r + win.h - 1, win.c)}

\* The go_cursor_to_pos + write_line pairs of draw_text for one window.
TextWrites(n, win) ==
    LET num_rows == IF win.title > 0 THEN TitleRows(win) + 1 ELSE 0
    IN  {Write(n, "text", win.r + 1 + i + num_rows, win.c + 1) : i \in 0..(win.h - 3)}

\* With isroot a split window only forwards the call to its children.
DrawTargets(ws, n, isroot) == IF isroot THEN Leaves(ws, n) ELSE <<n>>

RECURSIVE DrawAll(_, _, _)
DrawAll(ws, targets, what) ==
    IF targets = <<>> THEN [ok |-> TRUE, writes |-> {}]
    ELSE LET n == Head(targets) IN
         IF ~TitleOk(ws[n]) THEN [ok |-> FALSE, writes |-> {}]
         ELSE LET rest == DrawAll(ws, Tail(targets), what)
                  mine == IF what = "frame" THEN FrameWrites(n, ws[n])
                          ELSE TextWrites(n, ws[n])
              IN  [ok |-> rest.ok, writes |-> mine \cup rest.writes]

Draw(n, isroot, what) ==
    /\ error = "none"
    /\ LET res == DrawAll(wins, DrawTargets(wins, n, isroot), what) IN
         /\ screen' = res.writes
         /\ error' = IF res.ok THEN "none" ELSE "ValueError"
    /\ UNCHANGED <<wins, sent>>

draw_frame(n, isroot) ==
    /\ Draw(n, isroot, "frame")
    /\ call' = [op |-> "draw_frame", win |-> n, per |-> 0, isroot |-> isroot, msg |-> <<>>]

draw_text(n, isroot) ==
    /\ Draw(n, isroot, "text")
    /\ call' = [op |-> "draw_text", win |-> n, per |-> 0, isroot |-> isroot, msg |-> <<>>]

\* ---------------------------------------------------------------- clear
\* TLog.clear: TWindow.clear (children's clear, or the buffer reset of a
\* leaf), then msg_coo = [].
RECURSIVE ClearRec(_, _)
ClearRec(ws, n) ==
    LET w1 == IF issplitted(ws[n])
              THEN ClearRec(ClearRec(ws, Children(ws[n])[1]), Children(ws[n])[2])
              ELSE [ws EXCEPT ![n].data = BlankData(ws[n].h, ws[n].w)]
    IN  [w1 EXCEPT ![n].msg_coo = <<>>]

clear(n) ==
    /\ error = "none"
    /\ wins' = ClearRec(wins, n)
    /\ sent' = [i \in 1..Len(sent) |-> IF wins'[i].msg_coo = <<>> THEN <<>> ELSE sent[i]]
    /\ call' = [op |-> "clear", win |-> n, per |-> 0, isroot |-> FALSE, msg |-> <<>>]
    /\ UNCHANGED <<error, screen>>

\* ---------------------------------------------------------------- TLog
\* self.msg_format.format(msg=msg) for a template prefix + '{msg}'
Format(msg_format, msg) == msg_format \o msg

\* A start row on the previous message's last row.
StartRowOverlap(msg_coo) == IF msg_coo # <<>> THEN Last(msg_coo).end_row ELSE 0

\* start_row = self.msg_coo[-1].end_row + 1, or 0 for the first message
StartRow(msg_coo) == IF msg_coo # <<>> THEN Last(msg_coo).end_row + 1 ELSE 0

\* The LogPos of a message of `length` characters starting at start_row.
NewLogPos(start_row, length, sng_ln_len) ==
    IF length <= sng_ln_len
    THEN [begin_row |-> start_row, begin_col |-> 0,
          end_row |-> start_row, end_col |-> length]
    ELSE LET rows == length \div sng_ln_len
         IN  [begin_row |-> start_row, begin_col |-> 0,
              end_row |-> start_row + rows,
              end_col |-> length - rows * sng_ln_len]

\* _redirect_strs works out rows_to_erase in a local and prints msg_coo:
\* msg_coo and the buffer are left as they are.
redirect_strs(msg_coo, new, h) == msg_coo

\* The columns of one row of a span: range(begin_col, end_col) on the last
\* row, range(sng_ln_len) on the others.
RowCols(coo, row, sng_ln_len) ==
    IF row = coo.end_row THEN [lo |-> coo.begin_col, hi |-> coo.end_col - 1]
    ELSE [lo |-> 0, hi |-> sng_ln_len - 1]

\* The cells of a span in the order the loops of _add_msg visit them.
RECURSIVE CellsFrom(_, _, _)
CellsFrom(coo, row, sng_ln_len) ==
    IF row > coo.end_row THEN <<>>
    ELSE LET rc == RowCols(coo, row, sng_ln_len)
         IN  [k \in 1..(rc.hi - rc.lo + 1) |-> <<row, rc.lo + k - 1>>]
             \o CellsFrom(coo, row + 1, sng_ln_len)

InBuffer(cell, h, w) == cell[1] \in 0..(h - 3) /\ cell[2] \in 0..(w - 3)

\* self._data[row][col] = msg[ind] over the span: the writes up to the
\* first one that raises IndexError are kept.
WriteMsg(data, h, w, coo, msg) ==
    LET cells == CellsFrom(coo, coo.begin_row, w - 2)
        bads == {k \in 1..Len(cells) : ~InBuffer(cells[k], h, w) \/ k > Len(msg)}
        stop == IF bads = {} THEN Len(cells) + 1
                ELSE CHOOSE k \in bads : \A j \in bads : k <= j
        Hits(i, j) == {k \in 1..(stop - 1) : cells[k] = <<i, j>>}
    IN  [ok |-> bads = {},
         data |-> [i \in 0..(h - 3) |-> [j \in 0..(w - 3) |->
                     IF Hits(i, j) # {} THEN msg[Max(Hits(i, j))] ELSE data[i][j]]]]

add_msg(n, msg) ==
    /\ error = "none"
    /\ LET win == wins[n]
           text == Format(win.msg_format, msg)
           length == Len(text)
           sng_ln_len == win.w - 2
       IN  IF length > sng_ln_len /\ sng_ln_len = 0
           THEN /\ error' = "ZeroDivisionError"
                /\ UNCHANGED <<wins, sent>>
           ELSE LET new_log_pos == NewLogPos(StartRow(win.msg_coo), length, sng_ln_len)
                    coos == redirect_strs(Append(win.msg_coo, new_log_pos),
                                          new_log_pos, win.h)
                    res == WriteMsg(win.data, win.h, win.w, Last(coos), text)
                IN  /\ wins' = [wins EXCEPT ![n].msg_coo = coos, ![n].data = res.data]
                    /\ sent' = [sent EXCEPT ![n] = Append(@, text)]
                    /\ error' = IF res.ok THEN "none" ELSE "IndexError"
    /\ call' = [op |-> "add_msg", win |-> n, per |-> 0, isroot |-> FALSE, msg |-> msg]
    /\ UNCHANGED screen

\* The '...{msg}' template of main (no strftime token), by its literal prefix.
MsgFormat == <<".">>

\* full(): a window of the class at (1, 1) with the terminal's size.
full(h, w, title, msg_format) == Construct(1, 1, h, w, title, msg_format)

NoCall == [op |-> "init", win |-> 0, per |-> 0, isroot |-> FALSE, msg |-> <<>>]

Init ==
    /\ \E h \in 3..MaxH, w \in 3..MaxW, t \in 0..MaxTitle :
          wins = <<full(h, w, t, MsgFormat)>>
    /\ sent = <<<<>>>>
    /\ error = "none"
    /\ call = NoCall
    /\ screen = {}

Wins == 1..Len(wins)

Next ==
    \/ \E n \in Wins, per \in Pers :
          Len(wins) + 2 * Len(Leaves(wins, n)) <= MaxNodes /\ hsplit(n, per)
    \/ \E n \in Wins, per \in Pers :
          Len(wins) + 2 * Len(Leaves(wins, n)) <= MaxNodes /\ wsplit(n, per)
    \/ \E n \in Wins, isroot \in BOOLEAN : draw_frame(n, isroot)
    \/ \E n \in Wins, isroot \in BOOLEAN : draw_text(n, isroot)

Spec == Init /\ [][Next]_vars

\* The log: a full-screen TLog, split once at most as main does, with
\* messages added to and cleared from any of its windows.
LogInit ==
    /\ \E h \in 3..MaxLogH, w \in 3..MaxLogW : wins = <<full(h, w, 0, MsgFormat)>>
    /\ sent = <<<<>>>>
    /\ error = "none"
    /\ call = NoCall
    /\ screen = {}

TotalMsgs == LET RECURSIVE Sum(_)
                 Sum(i) == IF i = 0 THEN 0 ELSE Len(wins[i].msg_coo) + Sum(i - 1)
             IN  Sum(Len(wins))

LogNext ==
    \/ Len(wins) = 1 /\ hsplit(1, DefaultPer)
    \/ \E n \in Wins, msg \in Msgs : TotalMsgs < MaxMsgs /\ add_msg(n, msg)
    \/ \E n \in Wins : clear(n)

LogSpec == LogInit /\ [][LogNext]_vars

\* ---------------------------------------------------------------- properties
\* A window with a non-empty interior.
Valid(win) == win.h >= 3 /\ win.w >= 3

Ceil(a, b) == (a + b - 1) \div b

\* The rows the messages added to a window since its last clear need.
RECURSIVE CumRows(_, _)
CumRows(texts, W) ==
    IF texts = <<>> THEN 0 ELSE Ceil(Len(Head(texts)), W) + CumRows(Tail(texts), W)

\* The cells of a span read in row-major order, from (begin_row, begin_col)
\* to the cell before (end_row, end_col).
RECURSIVE SpanCells(_, _, _)
SpanCells(coo, row, W) ==
    IF row > coo.end_row THEN <<>>
    ELSE LET lo == IF row = coo.begin_row THEN coo.begin_col ELSE 0
             hi == IF row = coo.end_row THEN coo.end_col - 1 ELSE W - 1
         IN  [k \in 1..(hi - lo + 1) |-> <<row, lo + k - 1>>] \o SpanCells(coo, row + 1, W)

ReadsBack(win, coo, text) ==
    LET cells == SpanCells(coo, coo.begin_row, win.w - 2)
    IN  /\ \A k \in 1..Len(cells) : InBuffer(cells[k], win.h, win.w)
        /\ [k \in 1..Len(cells) |-> win.data[cells[k][1]][cells[k][2]]] = text

\* C1: in a window of height >= 3 and width >= 3, every entry of msg_coo lies
\* within the buffer rows: 0 <= begin_row <= end_row <= height - 3.
C1_RowsWithinViewport ==
    \A n \in Wins : Valid(wins[n]) =>
        \A i \in 1..Len(wins[n].msg_coo) :
            LET coo == wins[n].msg_coo[i]
            IN  0 <= coo.begin_row /\ coo.begin_row <= coo.end_row
                /\ coo.end_row <= wins[n].h - 3

\* C2: once the rows of the messages added exceed height - 2, the oldest
\* entries are gone from msg_coo, the first entry left starts at row 0 and the
\* newest message ends on the bottom buffer row height - 3.
C2_EvictionBottomAnchored ==
    \A n \in Wins :
        (Valid(wins[n]) /\ CumRows(sent[n], wins[n].w - 2) > wins[n].h - 2) =>
            /\ Len(wins[n].msg_coo) < Len(sent[n])
            /\ wins[n].msg_coo # <<>>
            /\ wins[n].msg_coo[1].begin_row = 0
            /\ Last(wins[n].msg_coo).end_row = wins[n].h - 3

\* C3: a message of length L > 0 in content width W spans ceil(L / W) rows
\* and its last row holds L - (rows - 1) * W characters (stated for the
\* entries of runs in which every call completed).
C3_WrapRows ==
    \A n \in Wins : (Valid(wins[n]) /\ error = "none") =>
        \A i \in 1..Min(Len(wins[n].msg_coo), Len(sent[n])) :
            LET coo == wins[n].msg_coo[i]
                L == Len(sent[n][i])
                W == wins[n].w - 2
                rows == coo.end_row - coo.begin_row + 1
            IN  L > 0 => /\ rows = Ceil(L, W)
                         /\ coo.end_col = L - (rows - 1) * W

\* C4: while the messages added need at most height - 2 rows, no add_msg
\* fails and every message reads back from the buffer along its span.
C4_RoundTrip ==
    \A n \in Wins :
        (Valid(wins[n]) /\ CumRows(sent[n], wins[n].w - 2) <= wins[n].h - 2) =>
            /\ ~(call.op = "add_msg" /\ call.win = n /\ error # "none")
            /\ Len(wins[n].msg_coo) = Len(sent[n])
            /\ \A i \in 1..Len(sent[n]) :
                   ReadsBack(wins[n], wins[n].msg_coo[i], sent[n][i])

\* C8: add_msg on a window of height >= 3 and width >= 3 completes whatever
\* the length of the message: no write leaves the buffer.
C8_AddMsgCompletes ==
    (call.op = "add_msg" /\ Valid(wins[call.win])) => error = "none"

\* C9: the entries of msg_coo are contiguous in chronological order: the
\* first starts at row 0, each later one on the row after its predecessor's
\* end_row, begin_row <= end_row, and clear() leaves the sequence empty.
C9_Contiguous ==
    /\ \A n \in Wins :
         LET m == wins[n].msg_coo
         IN  /\ m # <<>> => m[1].begin_row = 0
             /\ \A i \in 2..Len(m) : m[i].begin_row = m[i - 1].end_row + 1
             /\ \A i \in 1..Len(m) : m[i].begin_row <= m[i].end_row
    /\ call.op = "clear" => wins[call.win].msg_coo = <<>>

C9_Witness ==
    \E n \in Wins :
        /\ error = "none"
        /\ call.op = "add_msg" /\ call.win = n
        /\ Len(wins[n].msg_coo) >= 2
        /\ wins[n].msg_coo[1].end_row > wins[n].msg_coo[1].begin_row

\* C5: a split of a leaf partitions its rect: hsplit gives
\* (r, c, h, floor(w * per)) and (r, c + left, h, w - left); wsplit gives
\* (r, c, floor(h * per), w) and (r + top, c, h - top, w).
C5_SplitPartitions ==
    [][\A n \in 1..Len(wins) :
         (~issplitted(wins[n]) /\ issplitted(wins'[n])) =>
            LET p == wins'[n]
                ch == IF call'.op = "hsplit" THEN p.hsplit ELSE p.wsplit
            IN  /\ call'.op \in {"hsplit", "wsplit"}
                /\ ch # None
                /\ LET a == wins'[ch[1]]
                       b == wins'[ch[2]]
                       cut == ((IF call'.op = "hsplit" THEN p.w ELSE p.h) * call'.per)
                                  \div PerDen
                   IN  IF call'.op = "hsplit"
                       THEN /\ <<a.r, a.c, a.h, a.w>> = <<p.r, p.c, p.h, cut>>
                            /\ <<b.r, b.c, b.h, b.w>> = <<p.r, p.c + cut, p.h, p.w - cut>>
                            /\ a.w + b.w = p.w
                       ELSE /\ <<a.r, a.c, a.h, a.w>> = <<p.r, p.c, cut, p.w>>
                            /\ <<b.r, b.c, b.h, b.w>> = <<p.r + cut, p.c, p.h - cut, p.w>>
                            /\ a.h + b.h = p.h]_vars

C5_Witness ==
    /\ error = "none"
    /\ call.op = "wsplit" /\ call.per = 7
    /\ wins[call.win].wsplit # None
    /\ wins[wins[call.win].wsplit[1]].h > wins[wins[call.win].wsplit[2]].h

\* C6: a split window keeps its axis and its two children under every later
\* call, which is forwarded to the leaves below it; no window has both a
\* horizontal and a vertical split, and the windows a call creates are leaves.
C6_SplitOnce ==
    [][/\ \A n \in 1..Len(wins) :
            issplitted(wins[n]) =>
                /\ wins'[n].hsplit = wins[n].hsplit
                /\ wins'[n].wsplit = wins[n].wsplit
       /\ \A n \in 1..Len(wins') :
            /\ ~(wins'[n].hsplit # None /\ wins'[n].wsplit # None)
            /\ n > Len(wins) => ~issplitted(wins'[n])
       /\ (call'.op \in {"hsplit", "wsplit"} /\ error' = "none") =>
            \A k \in 1..Len(Leaves(wins, call'.win)) :
                LET l == Leaves(wins, call'.win)[k]
                IN  IF call'.op = "hsplit" THEN wins'[l].hsplit # None
                    ELSE wins'[l].wsplit # None]_vars

C6_Witness ==
    /\ error = "none"
    /\ call.op = "hsplit" /\ call.win = 1
    /\ wins[1].wsplit # None
    /\ wins[wins[1].wsplit[1]].hsplit # None
    /\ wins[wins[1].wsplit[2]].hsplit # None

\* C7: no window of the tree has a height or a width below 3.
C7_MinimumSize == \A n \in Wins : wins[n].h >= 3 /\ wins[n].w >= 3

\* C10: the rows draw_text writes the buffer of a leaf to are interior rows
\* of its frame: from r + 1 (r + title_rows + 2 under a title) up to the row
\* before the bottom border r + h - 1.
C10_TextInsideFrame ==
    \A wr \in screen :
        LET win == wins[wr.win]
        IN  (wr.kind = "text" /\ Valid(win) /\ ~issplitted(win)) =>
                /\ wr.row >= (IF win.title = 0 THEN win.r + 1
                              ELSE win.r + Ceil(win.title, win.w - 2) + 2)
                /\ wr.row < win.r + win.h - 1
====
